---- MODULE Spec2Model ----
(***************************************************************************)
(* The resilient command-execution engine of p4-fusion: P4API::RunEx       *)
(* (src/p4-fusion/p4_api.h) and the Result receiver                        *)
(* (src/p4-fusion/commands/result.h).                                      *)
(*                                                                         *)
(* Every Session (P4API object) is driven by one thread.  A RunEx call is  *)
(* a blocking call, modelled as a sequence of steps separated at its       *)
(* blocking points (dispatch, sleep, Reinitialize, Deinitialize, exit).    *)
(* log[s] is the trace of the calls RunEx has made during the call in      *)
(* flight on Session s.                                                    *)
(***************************************************************************)
EXTENDS Integers, Sequences, FiniteSets, TLC

\* ---- bounds of the model ----
MaxRetries == 2        \* largest explicit budget passed to RunEx
MaxGlobalRetries == 2  \* largest P4API::CommandRetries
MaxThreshold == 1      \* largest P4API::CommandRefreshThreshold
MaxUsage == 2          \* no call is started once m_Usage has reached this

MTUsage == 1           \* calls per Session with concurrent Sessions
MaxRules == 3          \* largest number of view rules installed

Sessions == {"s1", "s2"}
MainSession == "s1"

\* Severity of the Error a dispatch reports to the receiver.
Severities == {"none", "recoverable", "fatal"}

VARIABLES
    CommandRetries,           \* static int P4API::CommandRetries
    CommandRefreshThreshold,  \* static int P4API::CommandRefreshThreshold
    m_Usage,                  \* [Sessions -> Nat]  P4API::m_Usage
    dropped,                  \* [Sessions -> BOOLEAN]  m_ClientAPI.Dropped()
    clientUser,               \* [Sessions -> receiver]  the local clientUser
    commandRetries,           \* [Sessions -> Nat]  the parameter of RunEx
    retries,                  \* [Sessions -> Int]  the local retries
    refreshRetries,           \* [Sessions -> Int]  the local refreshRetries
    pc,                       \* [Sessions -> position inside RunEx]
    log,                      \* [Sessions -> Seq(event)]  trace of the call
    usage0,                   \* [Sessions -> Nat]  m_Usage when the call began
    crossings,                \* [Sessions -> Nat]  increments that took m_Usage over the threshold
    cycles,                   \* [Sessions -> Nat]  refresh phases entered
    exited,                   \* BOOLEAN  std::exit has been called
    InitializationMutex,      \* "free" or the Session whose thread holds the mutex
    libraries,                \* BOOLEAN  the library is initialized
    inside,                   \* [Sessions -> the lifecycle step the thread is inside]
    m_ClientMapping,          \* [Sessions -> Seq(view rule)]  P4API::m_ClientMapping
    asked                     \* the last path asked about, with the answer

vars == <<CommandRetries, CommandRefreshThreshold, m_Usage, dropped, clientUser,
          commandRetries, retries, refreshRetries, pc, log, usage0,
          crossings, cycles, exited, InitializationMutex, libraries, inside,
          m_ClientMapping, asked>>

\* The lifecycle state and the state of the path matcher.
lifecycle == <<InitializationMutex, libraries, inside>>
matcher == <<m_ClientMapping, asked>>

\* The state RunEx works on.
runstate == <<m_Usage, dropped, clientUser, commandRetries, retries, refreshRetries,
              log, usage0, crossings, cycles, exited>>

\* ---- the receiver (class Result) ----

\* Error::IsError(): severity at least "failed".
IsError(e) == e \in {"recoverable", "fatal"}

\* Error::IsFatal(): severity "fatal".
IsFatal(e) == e = "fatal"

\* No receiver: the state of clientUser outside a call.
NoReceiver == [id |-> 0, err |-> "none", writes |-> << >>]

\* new T(): a receiver with a default-constructed (empty) m_Error and no
\* payload.  id numbers the receivers constructed during one call.
NewReceiver(id) == [id |-> id, err |-> "none", writes |-> << >>]

\* Result::HandleError: stores the reported error in m_Error.
HandleError(r, e) == [r EXCEPT !.err = e]

\* Result::GetError
GetError(r) == r.err

\* m_ClientAPI.Run(command, receiver): attempt number n writes its output
\* into the receiver and reports error e (if any) through HandleError.
RunInto(r, n, e) ==
    LET w == [r EXCEPT !.writes = Append(@, n)]
    IN  IF e = "none" THEN w ELSE HandleError(w, e)

\* P4API::Reinitialize: Deinitialize followed by Initialize.  It reports
\* success or failure and changes nothing else RunEx reads: not m_Usage, not
\* the receiver, not the budgets.
ReinitializeResults == BOOLEAN

\* ---- events of the trace ----
Ev(op, d, e, ok) == [op |-> op, dropped |-> d, err |-> e, ok |-> ok]
EvDispatch(d, e) == Ev("dispatch", d, e, TRUE)
EvWait == Ev("wait", FALSE, "none", TRUE)
EvReinit(ok) == Ev("reinit", FALSE, "none", ok)
EvRefresh(ok) == Ev("refresh", FALSE, "none", ok)
EvDeinit == Ev("deinit", FALSE, "none", TRUE)
EvExit == Ev("exit", FALSE, "none", TRUE)
EvReturn == Ev("return", FALSE, "none", TRUE)

\* Positions of the events with operation op in a trace.
Positions(L, op) == {i \in 1..Len(L) : L[i].op = op}
\* The events with operation op, in order, and their number.
Only(L, op) == SelectSeq(L, LAMBDA ev : ev.op = op)
Count(L, op) == Len(Only(L, op))

\* Nothing has been asked of the path matcher yet.
NoQuestion == [rules |-> << >>, path |-> << >>, under |-> FALSE]

Init ==
    /\ CommandRetries \in 0..MaxGlobalRetries
    /\ CommandRefreshThreshold \in 0..MaxThreshold
    /\ m_Usage = [s \in Sessions |-> 0]
    /\ dropped = [s \in Sessions |-> FALSE]
    /\ clientUser = [s \in Sessions |-> NoReceiver]
    /\ commandRetries = [s \in Sessions |-> 0]
    /\ retries = [s \in Sessions |-> 0]
    /\ refreshRetries = [s \in Sessions |-> 0]
    /\ pc = [s \in Sessions |-> "idle"]
    /\ log = [s \in Sessions |-> << >>]
    /\ usage0 = [s \in Sessions |-> 0]
    /\ crossings = [s \in Sessions |-> 0]
    /\ cycles = [s \in Sessions |-> 0]
    /\ exited = FALSE
    /\ InitializationMutex = "free"
    /\ libraries = TRUE
    /\ inside = [s \in Sessions |-> "none"]
    /\ m_ClientMapping = [s \in Sessions |-> << >>]
    /\ asked = NoQuestion

config == <<CommandRetries, CommandRefreshThreshold>>

\* ---- RunEx ----

\* Lines 92-111: construct the receiver, dispatch, retries = commandRetries.
RunEx(s, n) ==
    /\ ~exited
    /\ pc[s] \in {"idle", "returned"}
    /\ m_Usage[s] < MaxUsage
    /\ \E d \in BOOLEAN, e \in Severities :
        /\ clientUser' = [clientUser EXCEPT ![s] = RunInto(NewReceiver(1), 1, e)]
        /\ dropped' = [dropped EXCEPT ![s] = d]
        /\ log' = [log EXCEPT ![s] = <<EvDispatch(d, e)>>]
    /\ commandRetries' = [commandRetries EXCEPT ![s] = n]
    /\ retries' = [retries EXCEPT ![s] = n]
    /\ refreshRetries' = [refreshRetries EXCEPT ![s] = 0]
    /\ usage0' = [usage0 EXCEPT ![s] = m_Usage[s]]
    /\ pc' = [pc EXCEPT ![s] = "while"]
    /\ UNCHANGED <<config, lifecycle, matcher, m_Usage, crossings, cycles, exited>>

\* Lines 176-180: Run is RunEx with the global budget.
Run(s) == RunEx(s, CommandRetries)

\* Mutant of LoopCond: the loop retries until the budget is used up.
LoopCondAlways(s) == TRUE

\* Line 112: the condition of the retry loop.
LoopCond(s) == dropped[s] \/ IsError(GetError(clientUser[s]))

\* Mutant of Sleep: the retry goes ahead without the wait.
SleepSkipped(s) ==
    /\ ~exited
    /\ pc[s] = "while"
    /\ LoopCond(s)
    /\ retries[s] # 0
    /\ pc' = [pc EXCEPT ![s] = "reinit"]
    /\ UNCHANGED <<config, lifecycle, matcher, m_Usage, dropped, clientUser, commandRetries, retries,
                   refreshRetries, usage0, crossings, cycles, exited, log>>

\* Lines 112-120: the loop goes on and the budget is not used up: sleep.
Sleep(s) ==
    /\ ~exited
    /\ pc[s] = "while"
    /\ LoopCond(s)
    /\ retries[s] # 0
    /\ log' = [log EXCEPT ![s] = Append(@, EvWait)]
    /\ pc' = [pc EXCEPT ![s] = "reinit"]
    /\ UNCHANGED <<config, lifecycle, matcher, m_Usage, dropped, clientUser, commandRetries, retries,
                   refreshRetries, usage0, crossings, cycles, exited>>

\* Mutant of ReinitializeRetry: a failed Reinitialize gives the call up.
ReinitializeRetryOrGiveUp(s) ==
    /\ ~exited
    /\ pc[s] = "reinit"
    /\ \E ok \in ReinitializeResults :
        /\ log' = [log EXCEPT ![s] = Append(@, EvReinit(ok))]
        /\ pc' = [pc EXCEPT ![s] = IF ok THEN "redispatch" ELSE "deinit"]
    /\ UNCHANGED <<config, lifecycle, matcher, m_Usage, dropped, clientUser, commandRetries, retries,
                   refreshRetries, usage0, crossings, cycles, exited>>

\* Lines 122-131: Reinitialize; its result is only logged.
ReinitializeRetry(s) ==
    /\ ~exited
    /\ pc[s] = "reinit"
    /\ \E ok \in ReinitializeResults : log' = [log EXCEPT ![s] = Append(@, EvReinit(ok))]
    /\ pc' = [pc EXCEPT ![s] = "redispatch"]
    /\ UNCHANGED <<config, lifecycle, matcher, m_Usage, dropped, clientUser, commandRetries, retries,
                   refreshRetries, usage0, crossings, cycles, exited>>

\* Mutant of RetryReceiver: the retry writes into the receiver it has.
ReusedReceiver(r) == r

\* Line 133: the receiver the redispatch writes into.
RetryReceiver(r) == NewReceiver(r.id + 1)

\* Mutant of Redispatch: the budget is not decremented.
RedispatchKeepsBudget(s) ==
    /\ ~exited
    /\ pc[s] = "redispatch"
    /\ \E d \in BOOLEAN, e \in Severities :
        /\ clientUser' = [clientUser EXCEPT ![s] =
              RunInto(RetryReceiver(@), Count(log[s], "dispatch") + 1, e)]
        /\ dropped' = [dropped EXCEPT ![s] = d]
        /\ log' = [log EXCEPT ![s] = Append(@, EvDispatch(d, e))]
    /\ pc' = [pc EXCEPT ![s] = "while"]
    /\ UNCHANGED <<config, lifecycle, matcher, m_Usage, commandRetries, retries, refreshRetries, usage0,
                   crossings, cycles, exited>>

\* Lines 133-138: new receiver, redispatch, retries--.
Redispatch(s) ==
    /\ ~exited
    /\ pc[s] = "redispatch"
    /\ \E d \in BOOLEAN, e \in Severities :
        /\ clientUser' = [clientUser EXCEPT ![s] =
              RunInto(RetryReceiver(@), Count(log[s], "dispatch") + 1, e)]
        /\ dropped' = [dropped EXCEPT ![s] = d]
        /\ log' = [log EXCEPT ![s] = Append(@, EvDispatch(d, e))]
    /\ retries' = [retries EXCEPT ![s] = @ - 1]
    /\ pc' = [pc EXCEPT ![s] = "while"]
    /\ UNCHANGED <<config, lifecycle, matcher, m_Usage, commandRetries, refreshRetries, usage0,
                   crossings, cycles, exited>>

\* Mutant of FatalCheck: any receiver error is taken for a fatal one.
FatalCheckAnyError(s) == dropped[s] \/ IsError(GetError(clientUser[s]))

\* Mutant of FatalCheck: the receiver's error is not looked at.
FatalCheckDroppedOnly(s) == dropped[s]

\* Line 141: the check after the retry loop.
FatalCheck(s) == dropped[s] \/ IsFatal(GetError(clientUser[s]))

\* Mutant of UseSession: the refresh phase takes the budget of the call.
UseSessionExplicitBudget(s) ==
    LET u == m_Usage[s] + 1 IN
    /\ m_Usage' = [m_Usage EXCEPT ![s] = u]
    /\ crossings' = [crossings EXCEPT ![s] =
          IF m_Usage[s] <= CommandRefreshThreshold /\ u > CommandRefreshThreshold
          THEN @ + 1 ELSE @]
    /\ IF u > CommandRefreshThreshold
       THEN /\ refreshRetries' = [refreshRetries EXCEPT ![s] = commandRetries[s]]
            /\ cycles' = [cycles EXCEPT ![s] = @ + 1]
            /\ pc' = [pc EXCEPT ![s] = "refresh"]
            /\ log' = log
       ELSE /\ pc' = [pc EXCEPT ![s] = "returned"]
            /\ log' = [log EXCEPT ![s] = Append(@, EvReturn)]
            /\ UNCHANGED <<refreshRetries, cycles>>

\* Mutant of UseSession: the refresh starts when the counter reaches the
\* threshold.
UseSessionAtThreshold(s) ==
    LET u == m_Usage[s] + 1 IN
    /\ m_Usage' = [m_Usage EXCEPT ![s] = u]
    /\ crossings' = [crossings EXCEPT ![s] =
          IF m_Usage[s] <= CommandRefreshThreshold /\ u > CommandRefreshThreshold
          THEN @ + 1 ELSE @]
    /\ IF u >= CommandRefreshThreshold
       THEN /\ refreshRetries' = [refreshRetries EXCEPT ![s] = CommandRetries]
            /\ cycles' = [cycles EXCEPT ![s] = @ + 1]
            /\ pc' = [pc EXCEPT ![s] = "refresh"]
            /\ log' = log
       ELSE /\ pc' = [pc EXCEPT ![s] = "returned"]
            /\ log' = [log EXCEPT ![s] = Append(@, EvReturn)]
            /\ UNCHANGED <<refreshRetries, cycles>>

\* Lines 148-151 and 173: m_Usage++, then the refresh phase or the return.
UseSession(s) ==
    LET u == m_Usage[s] + 1 IN
    /\ m_Usage' = [m_Usage EXCEPT ![s] = u]
    /\ crossings' = [crossings EXCEPT ![s] =
          IF m_Usage[s] <= CommandRefreshThreshold /\ u > CommandRefreshThreshold
          THEN @ + 1 ELSE @]
    /\ IF u > CommandRefreshThreshold
       THEN /\ refreshRetries' = [refreshRetries EXCEPT ![s] = CommandRetries]
            /\ cycles' = [cycles EXCEPT ![s] = @ + 1]
            /\ pc' = [pc EXCEPT ![s] = "refresh"]
            /\ log' = log
       ELSE /\ pc' = [pc EXCEPT ![s] = "returned"]
            /\ log' = [log EXCEPT ![s] = Append(@, EvReturn)]
            /\ UNCHANGED <<refreshRetries, cycles>>

\* Mutant of PostLoop: the counter is incremented before the check.
PostLoopCountsFirst(s) ==
    /\ ~exited
    /\ pc[s] = "while"
    /\ (~LoopCond(s) \/ retries[s] = 0)
    /\ IF FatalCheck(s)
       THEN /\ pc' = [pc EXCEPT ![s] = "deinit"]
            /\ m_Usage' = [m_Usage EXCEPT ![s] = @ + 1]
            /\ UNCHANGED <<refreshRetries, log, crossings, cycles>>
       ELSE UseSession(s)
    /\ UNCHANGED <<config, lifecycle, matcher, dropped, clientUser, commandRetries, retries, usage0, exited>>

\* Lines 112-117 and 141-151: the loop ends (no signal, or no budget left);
\* a dropped transport or fatal error goes to Deinitialize and exit.
PostLoop(s) ==
    /\ ~exited
    /\ pc[s] = "while"
    /\ (~LoopCond(s) \/ retries[s] = 0)
    /\ IF FatalCheck(s)
       THEN /\ pc' = [pc EXCEPT ![s] = "deinit"]
            /\ UNCHANGED <<m_Usage, refreshRetries, log, crossings, cycles>>
       ELSE UseSession(s)
    /\ UNCHANGED <<config, lifecycle, matcher, dropped, clientUser, commandRetries, retries, usage0, exited>>

\* Line 144: Deinitialize on the fatal path.
Deinitialize(s) ==
    /\ ~exited
    /\ pc[s] = "deinit"
    /\ log' = [log EXCEPT ![s] = Append(@, EvDeinit)]
    /\ pc' = [pc EXCEPT ![s] = "exit"]
    /\ UNCHANGED <<config, lifecycle, matcher, m_Usage, dropped, clientUser, commandRetries, retries,
                   refreshRetries, usage0, crossings, cycles, exited>>

\* Mutant of ProcessExit: only the calling thread ends.
ThreadExit(s) ==
    /\ exited' = exited
    /\ pc' = [pc EXCEPT ![s] = "exited"]
    /\ log' = [log EXCEPT ![s] = Append(@, EvExit)]

\* std::exit(1): the process, with every thread of it, is gone.
ProcessExit(s) ==
    /\ exited' = TRUE
    /\ pc' = [pc EXCEPT ![s] = "exited"]
    /\ log' = [log EXCEPT ![s] = Append(@, EvExit)]

\* Line 145: std::exit(1) on the fatal path.
Exit(s) ==
    /\ ~exited
    /\ pc[s] = "exit"
    /\ ProcessExit(s)
    /\ UNCHANGED <<config, lifecycle, matcher, m_Usage, dropped, clientUser, commandRetries, retries,
                   refreshRetries, usage0, crossings, cycles>>

\* Mutant of RefreshAttempt: a successful refresh resets the usage counter.
RefreshAttemptResets(s) ==
    /\ ~exited
    /\ pc[s] = "refresh"
    /\ refreshRetries[s] > 0
    /\ \E ok \in ReinitializeResults :
        IF ok
        THEN /\ log' = [log EXCEPT ![s] = Append(Append(@, EvRefresh(TRUE)), EvReturn)]
             /\ pc' = [pc EXCEPT ![s] = "returned"]
             /\ m_Usage' = [m_Usage EXCEPT ![s] = 0]
        ELSE /\ log' = [log EXCEPT ![s] = Append(@, EvRefresh(FALSE))]
             /\ pc' = [pc EXCEPT ![s] = "refreshsleep"]
             /\ m_Usage' = m_Usage
    /\ UNCHANGED <<config, lifecycle, matcher, dropped, clientUser, commandRetries, retries,
                   refreshRetries, usage0, crossings, cycles, exited>>

\* Mutant of RefreshAttempt: a successful refresh hands back a new receiver.
RefreshAttemptFreshReceiver(s) ==
    /\ ~exited
    /\ pc[s] = "refresh"
    /\ refreshRetries[s] > 0
    /\ \E ok \in ReinitializeResults :
        IF ok
        THEN /\ log' = [log EXCEPT ![s] = Append(Append(@, EvRefresh(TRUE)), EvReturn)]
             /\ pc' = [pc EXCEPT ![s] = "returned"]
             /\ clientUser' = [clientUser EXCEPT ![s] = NewReceiver(@.id + 1)]
        ELSE /\ log' = [log EXCEPT ![s] = Append(@, EvRefresh(FALSE))]
             /\ pc' = [pc EXCEPT ![s] = "refreshsleep"]
             /\ clientUser' = clientUser
    /\ UNCHANGED <<config, lifecycle, matcher, m_Usage, dropped, commandRetries, retries,
                   refreshRetries, usage0, crossings, cycles, exited>>

\* Lines 152-159 and 166-173: one Reinitialize of the refresh loop; on
\* success the loop breaks with refreshRetries > 0 and RunEx returns.
RefreshAttempt(s) ==
    /\ ~exited
    /\ pc[s] = "refresh"
    /\ refreshRetries[s] > 0
    /\ \E ok \in ReinitializeResults :
        IF ok
        THEN /\ log' = [log EXCEPT ![s] = Append(Append(@, EvRefresh(TRUE)), EvReturn)]
             /\ pc' = [pc EXCEPT ![s] = "returned"]
        ELSE /\ log' = [log EXCEPT ![s] = Append(@, EvRefresh(FALSE))]
             /\ pc' = [pc EXCEPT ![s] = "refreshsleep"]
    /\ UNCHANGED <<config, lifecycle, matcher, m_Usage, dropped, clientUser, commandRetries, retries,
                   refreshRetries, usage0, crossings, cycles, exited>>

\* Mutant of RefreshSleep: the refresh gives up after its first failure.
RefreshSleepGiveUp(s) ==
    /\ ~exited
    /\ pc[s] = "refreshsleep"
    /\ log' = [log EXCEPT ![s] = Append(@, EvWait)]
    /\ refreshRetries' = [refreshRetries EXCEPT ![s] = 0]
    /\ pc' = [pc EXCEPT ![s] = "refresh"]
    /\ UNCHANGED <<config, lifecycle, matcher, m_Usage, dropped, clientUser, commandRetries, retries,
                   usage0, crossings, cycles, exited>>

\* Lines 160-163: the wait after a failed refresh, refreshRetries--.
RefreshSleep(s) ==
    /\ ~exited
    /\ pc[s] = "refreshsleep"
    /\ log' = [log EXCEPT ![s] = Append(@, EvWait)]
    /\ refreshRetries' = [refreshRetries EXCEPT ![s] = @ - 1]
    /\ pc' = [pc EXCEPT ![s] = "refresh"]
    /\ UNCHANGED <<config, lifecycle, matcher, m_Usage, dropped, clientUser, commandRetries, retries,
                   usage0, crossings, cycles, exited>>

\* Mutant of RefreshEnd: the test of refreshRetries is for a negative value.
RefreshEndReturns(s) ==
    /\ ~exited
    /\ pc[s] = "refresh"
    /\ ~(refreshRetries[s] > 0)
    /\ IF refreshRetries[s] < 0
       THEN ProcessExit(s)
       ELSE /\ pc' = [pc EXCEPT ![s] = "returned"]
            /\ log' = [log EXCEPT ![s] = Append(@, EvReturn)]
            /\ exited' = exited
    /\ UNCHANGED <<config, lifecycle, matcher, m_Usage, dropped, clientUser, commandRetries, retries,
                   refreshRetries, usage0, crossings, cycles>>

\* Lines 152 and 166-173: the refresh loop ends without a break.
RefreshEnd(s) ==
    /\ ~exited
    /\ pc[s] = "refresh"
    /\ ~(refreshRetries[s] > 0)
    /\ IF refreshRetries[s] = 0
       THEN ProcessExit(s)
       ELSE /\ pc' = [pc EXCEPT ![s] = "returned"]
            /\ log' = [log EXCEPT ![s] = Append(@, EvReturn)]
            /\ exited' = exited
    /\ UNCHANGED <<config, lifecycle, matcher, m_Usage, dropped, clientUser, commandRetries, retries,
                   refreshRetries, usage0, crossings, cycles>>

\* The steps of a call in flight on Session s.
Step(s) ==
    \/ Sleep(s)
    \/ ReinitializeRetry(s)
    \/ Redispatch(s)
    \/ PostLoop(s)
    \/ Deinitialize(s)
    \/ Exit(s)
    \/ RefreshAttempt(s)
    \/ RefreshSleep(s)
    \/ RefreshEnd(s)

\* One Session, called with any explicit budget or with the global one.
Next ==
    \/ \E n \in 0..MaxRetries : RunEx(MainSession, n)
    \/ Run(MainSession)
    \/ Step(MainSession)

Spec == Init /\ [][Next]_vars

\* The first call on a Session, with any budget.
FirstRunEx(s, n) ==
    /\ pc[s] = "idle"
    /\ RunEx(s, n)

NextFair ==
    \/ \E n \in 0..MaxRetries : FirstRunEx(MainSession, n)
    \/ Step(MainSession)

\* One call, followed to its end.  The thread of a call in flight keeps
\* running: every blocking call RunEx makes (dispatch, sleep, Reinitialize,
\* Deinitialize) comes back.  Whether the call goes into the refresh phase
\* is decided by CommandRefreshThreshold, 0 or more.
FairSpec == Init /\ [][NextFair]_vars /\ WF_vars(Step(MainSession))

\* Several Sessions, each driven by its own thread through Run; the steps
\* of the calls interleave.  The global budget is 0 or 1 here: the product
\* of two traces grows with the square of what one call can do.
InitMT ==
    /\ Init
    /\ CommandRetries \in {0, 1}

RunMT(s) ==
    /\ m_Usage[s] < MTUsage
    /\ Run(s)

NextMT == \E s \in Sessions : RunMT(s) \/ Step(s)

SpecMT == InitMT /\ [][NextMT]_vars

\* ---- reading the trace of a call ----

\* The n-th dispatch of the trace (n at most the number of dispatches).
NthDispatch(L, n) == Only(L, "dispatch")[n]

LastDispatch(L) == NthDispatch(L, Count(L, "dispatch"))

\* The error signal of a dispatch: transport dropped or receiver in error.
Signalled(ev) == ev.dropped \/ IsError(ev.err)

\* The call on s has left the retry loop and passed line 141.
AfterLoop(s) ==
    pc[s] \in {"deinit", "exit", "refresh", "refreshsleep", "returned", "exited"}

\* The call on s is over.
Ended(s) == pc[s] \in {"returned", "exited"}

\* The call on s took the branch of line 141 (Deinitialize, std::exit).
OnFatalPath(s) ==
    \/ pc[s] \in {"deinit", "exit"}
    \/ pc[s] = "exited" /\ Count(log[s], "deinit") = 1

\* The refresh phase of the call on s made CommandRetries Reinitialize calls
\* and every one of them failed.
RefreshExhausted(s) ==
    /\ m_Usage[s] > CommandRefreshThreshold
    /\ Count(log[s], "refresh") = CommandRetries
    /\ \A i \in Positions(log[s], "refresh") : ~log[s][i].ok

\* ---- C1 ----
AllDropped(L) == \A i \in Positions(L, "dispatch") : L[i].dropped

WaitBeforeEachReinit(L) ==
    \A i \in Positions(L, "reinit") : i > 1 /\ L[i - 1].op = "wait"

\* C1: when the transport is dropped after every dispatch of a call with
\* budget N, the call never reaches the usage increment, the refresh phase
\* or the return; once the loop is left it has made exactly N Reinitialize
\* calls, each right after one wait (N waits in all), and exactly N+1
\* dispatches, and it ends in Deinitialize and std::exit.
C1_AlwaysDropped ==
    \A s \in Sessions :
        (pc[s] # "idle" /\ AllDropped(log[s])) =>
            /\ pc[s] \notin {"refresh", "refreshsleep", "returned"}
            /\ WaitBeforeEachReinit(log[s])
            /\ AfterLoop(s) =>
                /\ OnFatalPath(s)
                /\ Count(log[s], "wait") = commandRetries[s]
                /\ Count(log[s], "reinit") = commandRetries[s]
                /\ Count(log[s], "dispatch") = commandRetries[s] + 1
                /\ Count(log[s], "refresh") = 0

C1_Witness ==
    \E s \in Sessions :
        /\ pc[s] = "exited"
        /\ AllDropped(log[s])
        /\ commandRetries[s] >= 2
        /\ Count(log[s], "reinit") >= 2

\* ---- C2 ----
\* The budget of the call on s is used up, the transport is connected and
\* the last attempt's error is recoverable.
ExhaustedRecoverable(s) ==
    /\ AfterLoop(s)
    /\ retries[s] = 0
    /\ ~LastDispatch(log[s]).dropped
    /\ LastDispatch(log[s]).err = "recoverable"

\* C2 as stated: such a call does not terminate the process and returns the
\* erroneous result.
C2_AlwaysReturns ==
    \A s \in Sessions :
        (Ended(s) /\ ExhaustedRecoverable(s)) =>
            pc[s] = "returned" /\ GetError(clientUser[s]) = "recoverable"

\* C2 amended: such a call does not terminate at the check of line 141: it
\* increments the usage counter and keeps the erroneous receiver, and it
\* returns that receiver unless the refresh phase uses up its attempts.
C2_ReturnsUnlessRefreshFails ==
    \A s \in Sessions :
        ExhaustedRecoverable(s) =>
            /\ ~OnFatalPath(s)
            /\ GetError(clientUser[s]) = "recoverable"
            /\ m_Usage[s] = usage0[s] + 1
            /\ pc[s] = "exited" => RefreshExhausted(s)
            /\ (Ended(s) /\ ~RefreshExhausted(s)) => pc[s] = "returned"
            /\ m_Usage[s] <= CommandRefreshThreshold => pc[s] = "returned"

C2_Witness ==
    \E s \in Sessions :
        /\ pc[s] = "returned"
        /\ ExhaustedRecoverable(s)
        /\ commandRetries[s] >= 1
        /\ GetError(clientUser[s]) = "recoverable"

\* ---- C3 ----
\* C3 as stated: a fatal error on the first dispatch ends in termination,
\* whatever the budget and the later attempts.
C3_FirstFatalTerminates ==
    \A s \in Sessions :
        (AfterLoop(s) /\ IsFatal(log[s][1].err)) => OnFatalPath(s)

\* C3 amended: a fatal error on the first dispatch ends in termination when
\* the budget is 0, and for any budget when the last attempt is fatal (or
\* dropped) as well; with a positive budget it is retried, and a last
\* attempt that is neither dropped nor fatal takes the call past line 141.
C3_LastAttemptDecides ==
    \A s \in Sessions :
        (AfterLoop(s) /\ IsFatal(log[s][1].err)) =>
            /\ commandRetries[s] = 0 => OnFatalPath(s)
            /\ OnFatalPath(s) <=>
                  (LastDispatch(log[s]).dropped \/ IsFatal(LastDispatch(log[s]).err))
            /\ Count(log[s], "dispatch") = 1 => commandRetries[s] = 0

C3_Witness ==
    \E s \in Sessions :
        /\ pc[s] = "exited"
        /\ IsFatal(log[s][1].err)
        /\ ~log[s][1].dropped
        /\ commandRetries[s] = 0
        /\ OnFatalPath(s)

\* ---- C4 ----
\* The first dispatch signalled an error and the first retry signalled none.
ClearsOnFirstRetry(s) ==
    /\ Count(log[s], "dispatch") >= 2
    /\ Signalled(NthDispatch(log[s], 1))
    /\ ~Signalled(NthDispatch(log[s], 2))

\* C4 as stated: the call returns a result without error after exactly one
\* Reinitialize call in total.
C4_OneReinitInTotal ==
    \A s \in Sessions :
        (Ended(s) /\ ClearsOnFirstRetry(s)) =>
            /\ pc[s] = "returned"
            /\ ~IsError(GetError(clientUser[s]))
            /\ Count(log[s], "reinit") + Count(log[s], "refresh") = 1

\* C4 amended: the call leaves the retry loop after exactly one Reinitialize
\* call and two dispatches, whatever the budget, with a result without
\* error, and does not terminate at line 141; when the usage counter does
\* not exceed the threshold it returns after that single Reinitialize call.
\* Otherwise the refresh phase adds its own Reinitialize calls and the call
\* returns unless they all fail.
C4_OneReinitInLoop ==
    \A s \in Sessions :
        (AfterLoop(s) /\ ClearsOnFirstRetry(s)) =>
            /\ Count(log[s], "reinit") = 1
            /\ Count(log[s], "dispatch") = 2
            /\ ~OnFatalPath(s)
            /\ ~IsError(GetError(clientUser[s]))
            /\ m_Usage[s] <= CommandRefreshThreshold =>
                  pc[s] = "returned" /\ Count(log[s], "refresh") = 0
            /\ pc[s] = "exited" => RefreshExhausted(s)

C4_Witness ==
    \E s \in Sessions :
        /\ pc[s] = "returned"
        /\ ClearsOnFirstRetry(s)
        /\ commandRetries[s] >= 2
        /\ Count(log[s], "reinit") + Count(log[s], "refresh") = 1

\* ---- C5 ----
\* The last attempt of the call on s left the transport dropped or a fatal
\* error in the receiver.
FatalAfterLoop(s) ==
    LastDispatch(log[s]).dropped \/ IsFatal(LastDispatch(log[s]).err)

\* C5: the process is terminated by a call only when, after the retry loop,
\* the transport is dropped or the last receiver's error is fatal, or when
\* every Reinitialize of the refresh phase failed; a call to which none of
\* the three applies returns.
C5_TerminationCauses ==
    \A s \in Sessions :
        /\ AfterLoop(s) => (OnFatalPath(s) <=> FatalAfterLoop(s))
        /\ Ended(s) =>
              (pc[s] = "exited" <=> (FatalAfterLoop(s) \/ RefreshExhausted(s)))

C5_Witness ==
    \E s \in Sessions :
        /\ pc[s] = "exited"
        /\ ~FatalAfterLoop(s)
        /\ RefreshExhausted(s)
        /\ Count(log[s], "refresh") >= 2

\* ---- C6 ----
\* C6 as stated: one refresh cycle per crossing of the threshold.
C6_OneCyclePerCrossing ==
    \A s \in Sessions : cycles[s] = crossings[s]

\* The events of the refresh phase of the trace.
RefreshOk(L) == {i \in Positions(L, "refresh") : L[i].ok}

\* C6 amended: the counter crosses the threshold at most once, and every
\* call that gets past line 141 with the counter above the threshold after
\* the increment, the crossing one and each later one, runs exactly one
\* refresh cycle; the cycle ends at its first successful Reinitialize, after
\* which the call returns, and when Reinitialize fails on every attempt of
\* the cycle's budget the process terminates.
C6_OneCyclePerCallOverThreshold ==
    \A s \in Sessions :
        /\ crossings[s] = (IF m_Usage[s] > CommandRefreshThreshold THEN 1 ELSE 0)
        /\ cycles[s] = (IF m_Usage[s] > CommandRefreshThreshold
                        THEN m_Usage[s] - CommandRefreshThreshold ELSE 0)
        /\ Cardinality(RefreshOk(log[s])) <= 1
        /\ \A i \in RefreshOk(log[s]) :
              /\ pc[s] = "returned"
              /\ i = Len(log[s]) - 1
        /\ Count(log[s], "refresh") <= CommandRetries
        /\ (Ended(s) /\ ~FatalAfterLoop(s) /\ RefreshExhausted(s)) => pc[s] = "exited"
        /\ (pc[s] = "returned" /\ m_Usage[s] > CommandRefreshThreshold) =>
              Cardinality(RefreshOk(log[s])) = 1

C6_Witness ==
    \E s \in Sessions :
        /\ pc[s] = "returned"
        /\ crossings[s] = 1
        /\ cycles[s] >= 2
        /\ Count(log[s], "refresh") >= 2

\* ---- C7 ----
\* C7: a call that terminated the process executed Deinitialize right
\* before std::exit.
C7_DeinitializeBeforeExit ==
    \A s \in Sessions :
        pc[s] = "exited" =>
            /\ Len(log[s]) >= 2
            /\ log[s][Len(log[s])].op = "exit"
            /\ log[s][Len(log[s]) - 1].op = "deinit"

\* ---- C8 ----
\* The call on s is past the increment of line 148.
Counted(s) ==
    \/ pc[s] \in {"refresh", "refreshsleep", "returned"}
    \/ pc[s] = "exited" /\ ~OnFatalPath(s)

\* C8: during a call the usage counter is the value it had when the call
\* began until the call gets past the check of line 141, and that value plus
\* one from then on, however many retries and refresh attempts are made; a
\* call that terminates at the check leaves it as it was.  The counter of a
\* Session is the number of its calls that got past the check.
C8_UsageCounter ==
    \A s \in Sessions :
        /\ m_Usage[s] = usage0[s] + (IF Counted(s) THEN 1 ELSE 0)
        /\ m_Usage[s] >= usage0[s]
        /\ OnFatalPath(s) => m_Usage[s] = usage0[s]

C8_Witness ==
    \E s \in Sessions :
        /\ pc[s] = "returned"
        /\ m_Usage[s] >= 2
        /\ Count(log[s], "reinit") >= 2
        /\ Count(log[s], "refresh") >= 1

\* ---- C9 ----
\* C9: the receiver of a call is always the one constructed for the last
\* dispatch: it holds the output of that attempt alone, and its error is the
\* error that attempt reported.  It is what the call returns.
C9_FreshReceiver ==
    \A s \in Sessions :
        pc[s] # "idle" =>
            /\ clientUser[s].id = Count(log[s], "dispatch")
            /\ clientUser[s].writes = <<Count(log[s], "dispatch")>>
            /\ GetError(clientUser[s]) = LastDispatch(log[s]).err

C9_Witness ==
    \E s \in Sessions :
        /\ pc[s] = "returned"
        /\ Count(log[s], "dispatch") >= 3
        /\ NthDispatch(log[s], 1).err = "fatal"
        /\ NthDispatch(log[s], 2).err = "recoverable"
        /\ GetError(clientUser[s]) = "none"

\* ---- C10 ----
\* C10: once a call on any Session has reached std::exit, nothing changes
\* any more: no call on another Session returns or takes a step.
C10_ProcessWideExit ==
    [][(\E s \in Sessions : pc[s] = "exited") => UNCHANGED vars]_vars

C10_Witness ==
    \E s, t \in Sessions :
        /\ s # t
        /\ pc[s] = "exited"
        /\ pc[t] \in {"while", "reinit", "redispatch", "refresh", "refreshsleep"}

\* ---- C13 ----
\* C13: every Reinitialize of the retry loop comes right after one wait that
\* follows a dispatch with an error signal, made while budget remained, and
\* is followed, whatever it returned, by the redispatch into a new receiver;
\* the budget goes down by one with each redispatch and not before.  A
\* failed Reinitialize neither ends the loop nor terminates the process.
C13_RetryIteration ==
    \A s \in Sessions :
        LET L == log[s] IN
        /\ \A i \in Positions(L, "reinit") :
              /\ i >= 3
              /\ L[i - 1].op = "wait"
              /\ L[i - 2].op = "dispatch" /\ Signalled(L[i - 2])
              /\ i < Len(L) => L[i + 1].op = "dispatch"
              /\ i = Len(L) => pc[s] = "redispatch"
        /\ pc[s] = "reinit" =>
              /\ L[Len(L)].op = "wait"
              /\ retries[s] >= 1
              /\ retries[s] = commandRetries[s] - Count(L, "reinit")
        /\ pc[s] = "redispatch" =>
              /\ retries[s] >= 1
              /\ retries[s] = commandRetries[s] - Count(L, "reinit") + 1
              /\ clientUser[s].id = Count(L, "dispatch")
        /\ pc[s] \notin {"idle", "redispatch"} =>
              /\ retries[s] = commandRetries[s] - Count(L, "reinit")
              /\ Count(L, "dispatch") = Count(L, "reinit") + 1

C13_Witness ==
    \E s \in Sessions :
        /\ pc[s] = "returned"
        /\ Count(log[s], "dispatch") = 3
        /\ \A i \in Positions(log[s], "reinit") : ~log[s][i].ok

\* ---- C14 ----
\* C14 as stated: a call that has reached the increment of the usage counter
\* had no receiver error and no dropped transport on its last attempt.
C14_CountedOnlyAfterSuccess ==
    \A s \in Sessions :
        Counted(s) => ~Signalled(LastDispatch(log[s]))

\* C14 amended: a call that has reached the increment of the usage counter
\* had, on its last attempt, a connected transport and no fatal error; the
\* receiver may hold a recoverable error, and does so only when the retry
\* budget is used up.
C14_CountedUnlessDroppedOrFatal ==
    \A s \in Sessions :
        Counted(s) =>
            /\ ~LastDispatch(log[s]).dropped
            /\ ~IsFatal(LastDispatch(log[s]).err)
            /\ ~dropped[s]
            /\ ~IsFatal(GetError(clientUser[s]))
            /\ IsError(GetError(clientUser[s])) => retries[s] = 0

C14_Witness ==
    \E s \in Sessions :
        /\ pc[s] = "returned"
        /\ m_Usage[s] = usage0[s] + 1
        /\ LastDispatch(log[s]).err = "recoverable"
        /\ Count(log[s], "dispatch") >= 2

\* ---- C15 ----
\* C15: the refresh phase makes at most CommandRetries Reinitialize calls,
\* whatever budget the call was given; the first comes right after the last
\* dispatch, without a wait, and every later one right after the wait that
\* follows a failed one.  One that succeeds is the last: the call returns,
\* the process goes on, and the calls made are exactly those up to it, for
\* every position up to CommandRetries, the last one included.
C15_RefreshAttempts ==
    \A s \in Sessions :
        LET L == log[s]
            R == Positions(L, "refresh")
        IN
        /\ Count(L, "refresh") <= CommandRetries
        /\ \A i \in R :
              /\ i >= 2
              /\ L[i - 1].op \in {"dispatch", "wait"}
              /\ L[i - 1].op = "dispatch" => \A j \in R : j >= i
              /\ L[i - 1].op = "wait" =>
                    L[i - 2].op = "refresh" /\ ~L[i - 2].ok
              /\ ~L[i].ok =>
                    /\ i < Len(L) => L[i + 1].op = "wait"
                    /\ i = Len(L) => pc[s] = "refreshsleep"
              /\ L[i].ok =>
                    /\ \A j \in R : j <= i
                    /\ pc[s] = "returned"
                    /\ L[i + 1].op = "return" /\ Len(L) = i + 1
                    /\ refreshRetries[s] = CommandRetries - Count(L, "refresh") + 1
        /\ pc[s] = "refresh" =>
              refreshRetries[s] = CommandRetries - Count(L, "refresh")

C15_Witness ==
    \E s \in Sessions :
        /\ pc[s] = "returned"
        /\ commandRetries[s] = 0
        /\ CommandRetries >= 2
        /\ Count(log[s], "refresh") = CommandRetries
        /\ RefreshOk(log[s]) # {}

\* ---- C16 ----
\* The call on s went into the refresh phase.
EnteredRefresh(s) ==
    \/ pc[s] \in {"refresh", "refreshsleep"}
    \/ Count(log[s], "refresh") >= 1
    \/ pc[s] = "exited" /\ ~OnFatalPath(s)

\* C16: a successful refresh leaves the usage counter above the threshold,
\* and a call that begins with the counter above the threshold and gets
\* past the check of line 141 goes into the refresh phase again.
C16_RefreshEveryCall ==
    \A s \in Sessions :
        /\ RefreshOk(log[s]) # {} =>
              /\ m_Usage[s] > CommandRefreshThreshold
              /\ m_Usage[s] = usage0[s] + 1
        /\ (usage0[s] > CommandRefreshThreshold /\ Counted(s)) => EnteredRefresh(s)
        /\ (Counted(s) /\ ~EnteredRefresh(s)) => m_Usage[s] <= CommandRefreshThreshold

C16_Witness ==
    \E s \in Sessions :
        /\ pc[s] = "returned"
        /\ usage0[s] > CommandRefreshThreshold
        /\ cycles[s] >= 2
        /\ RefreshOk(log[s]) # {}

\* ---- C17 ----
\* C17: no step of the refresh phase dispatches the command or touches the
\* receiver: the receiver the call returns after the refresh is the one the
\* last dispatch wrote into, error included.
C17_RefreshKeepsResult ==
    [][\A s \in Sessions :
          pc[s] \in {"refresh", "refreshsleep"} =>
              /\ clientUser'[s] = clientUser[s]
              /\ dropped'[s] = dropped[s]
              /\ Count(log'[s], "dispatch") = Count(log[s], "dispatch")]_vars

C17_Witness ==
    \E s \in Sessions :
        /\ pc[s] = "returned"
        /\ RefreshOk(log[s]) # {}
        /\ Count(log[s], "refresh") >= 2
        /\ GetError(clientUser[s]) = "recoverable"
        /\ clientUser[s].writes = <<Count(log[s], "dispatch")>>

\* ---- C18 ----
\* The resources a call has used so far are within its budgets.
WithinBudget(s) ==
    /\ Count(log[s], "dispatch") <= commandRetries[s] + 1
    /\ Count(log[s], "reinit") <= commandRetries[s]
    /\ Count(log[s], "refresh") <= CommandRetries
    /\ retries[s] >= 0
    /\ refreshRetries[s] >= 0

\* C18: whatever the dispatches and the Reinitialize calls give, a call makes
\* at most N+1 dispatches, at most N Reinitialize calls in the retry loop and
\* at most CommandRetries in the refresh phase, its budgets never go below
\* zero, and it ends: it returns or terminates the process.
C18_CallEnds ==
    /\ [](\A s \in Sessions : WithinBudget(s))
    /\ \A s \in Sessions : (pc[s] = "while") ~> Ended(s)

C18_Witness ==
    \E s \in Sessions :
        /\ pc[s] = "returned"
        /\ commandRetries[s] >= 2
        /\ Count(log[s], "dispatch") = commandRetries[s] + 1
        /\ CommandRetries >= 2
        /\ Count(log[s], "refresh") = CommandRetries

\* ---- C19 ----
\* C19: with CommandRetries = 0, a call that gets past the check of line 141
\* with the usage counter above the threshold makes no Reinitialize call in
\* the refresh phase and does not return: it ends in std::exit, without
\* Deinitialize, also when its last dispatch was clean.
C19_NoBudgetNoRefresh ==
    \A s \in Sessions :
        (CommandRetries = 0 /\ Counted(s) /\ m_Usage[s] > CommandRefreshThreshold) =>
            /\ pc[s] \in {"refresh", "exited"}
            /\ refreshRetries[s] = 0
            /\ Count(log[s], "refresh") = 0
            /\ Count(log[s], "deinit") = 0
            /\ pc[s] = "exited" => log[s][Len(log[s])].op = "exit"

C19_Witness ==
    \E s \in Sessions :
        /\ CommandRetries = 0
        /\ pc[s] = "exited"
        /\ ~Signalled(LastDispatch(log[s]))
        /\ Count(log[s], "dispatch") = 1
        /\ Len(log[s]) = 2

\* ---- the client-spec view (P4API::m_ClientMapping) ----

\* Depot paths, as the components below //depot.
Paths ==
    {<<"main", "f">>, <<"main", "src", "f">>, <<"main", "secret", "f">>,
     <<"main", "secret", "src", "f">>, <<"main2", "f">>, <<"main">>,
     <<"other", "f">>, <<"other", "secret", "f">>}

\* View strings, as tokens: an optional "-" (exclude), the components of
\* the depot pattern up to its "...", then the client pattern.
ViewStrings ==
    {<<"main", "...", "ws", "main", "...">>,
     <<"-", "main", "secret", "...", "ws", "main", "secret", "...">>,
     <<"main", "secret", "...", "ws", "main", "secret", "...">>,
     <<"-", "main", "...", "ws", "main", "...">>,
     <<"other", "...", "ws", "other", "...">>}

\* The position of the first "..." of a token sequence.
Wildcard(v) ==
    CHOOSE i \in 1..Len(v) : v[i] = "..." /\ \A j \in 1..(i - 1) : v[j] # "..."

\* Parsing one view string into a rule: inclusion flag, depot-side prefix
\* and client-side prefix.
ParseView(v) ==
    LET body == IF v[1] = "-" THEN Tail(v) ELSE v
        k == Wildcard(body)
        rest == SubSeq(body, k + 1, Len(body))
    IN  [include |-> v[1] # "-",
         left |-> SubSeq(body, 1, k - 1),
         right |-> SubSeq(rest, 1, Wildcard(rest) - 1)]

\* A pattern prefix/... matches the paths that lie below the prefix,
\* component by component.
Matches(rule, path) ==
    /\ Len(path) > Len(rule.left)
    /\ SubSeq(path, 1, Len(rule.left)) = rule.left

\* The rules are applied in order; each one that matches overrides the
\* verdict so far.
RECURSIVE Scan(_, _, _)
Scan(rules, path, verdict) ==
    IF rules = << >> THEN verdict
    ELSE Scan(Tail(rules), path,
              IF Matches(Head(rules), path) THEN Head(rules).include ELSE verdict)

\* The first rule that matches decides.
RECURSIVE ScanFirst(_, _)
ScanFirst(rules, path) ==
    IF rules = << >> THEN FALSE
    ELSE IF Matches(Head(rules), path) THEN Head(rules).include
    ELSE ScanFirst(Tail(rules), path)

\* Mutant of IsDepotPathUnderClientSpec: first match wins.
IsDepotPathUnderClientSpecFirstMatch(s, depotPath) ==
    ScanFirst(m_ClientMapping[s], depotPath)

\* P4API::IsDepotPathUnderClientSpec
IsDepotPathUnderClientSpec(s, depotPath) ==
    Scan(m_ClientMapping[s], depotPath, FALSE)

\* P4API::AddClientSpecView: the view strings are parsed and appended in the
\* order given.
AddClientSpecView(s, viewStrings) ==
    /\ Len(m_ClientMapping[s]) + Len(viewStrings) <= MaxRules
    /\ m_ClientMapping' = [m_ClientMapping EXCEPT ![s] =
          @ \o [i \in 1..Len(viewStrings) |-> ParseView(viewStrings[i])]]
    /\ UNCHANGED <<config, lifecycle, runstate, pc, asked>>

\* A caller asks whether a depot path is under the client spec.
AskUnderClientSpec(s, depotPath) ==
    /\ asked' = [rules |-> m_ClientMapping[s], path |-> depotPath,
                 under |-> IsDepotPathUnderClientSpec(s, depotPath)]
    /\ UNCHANGED <<config, lifecycle, runstate, pc, m_ClientMapping>>

\* The lists of view strings a caller installs at once.
ViewLists ==
    {<<v>> : v \in ViewStrings} \cup {<<v, w>> : v \in ViewStrings, w \in ViewStrings}

NextView ==
    \/ \E vs \in ViewLists : AddClientSpecView(MainSession, vs)
    \/ \E p \in Paths : AskUnderClientSpec(MainSession, p)

SpecView == Init /\ [][NextView]_vars

\* ---- the Session lifecycle under InitializationMutex ----

\* Mutant of Acquire: the mutex is taken without waiting for it.
AcquireUnchecked(s) == InitializationMutex' = s

\* std::lock_guard on InitializationMutex: the thread of s goes on when the
\* mutex is free, and holds it from then on.
Acquire(s) == InitializationMutex = "free" /\ InitializationMutex' = s

\* The end of the guarded scope.
Release(s) == InitializationMutex' = "free"

\* P4API::InitializeLibraries, called once, by the main thread, before any
\* Session exists: take the mutex ...
BeginInitializeLibraries(s) ==
    /\ ~exited
    /\ s = MainSession
    /\ pc[s] = "new"
    /\ ~libraries
    /\ inside[s] = "none"
    /\ Acquire(s)
    /\ inside' = [inside EXCEPT ![s] = "libraries"]
    /\ UNCHANGED <<config, runstate, pc, libraries, matcher>>

\* ... initialize the library, release the mutex.
EndInitializeLibraries(s) ==
    /\ ~exited
    /\ inside[s] = "libraries"
    /\ ~libraries
    /\ libraries' = TRUE
    /\ Release(s)
    /\ inside' = [inside EXCEPT ![s] = "none"]
    /\ UNCHANGED <<config, runstate, pc, matcher>>

\* P4API::ShutdownLibraries, by the main thread between two of its commands:
\* take the mutex ...
BeginShutdownLibraries(s) ==
    /\ ~exited
    /\ s = MainSession
    /\ pc[s] \in {"idle", "returned"}
    /\ libraries
    /\ inside[s] = "none"
    /\ Acquire(s)
    /\ inside' = [inside EXCEPT ![s] = "libraries"]
    /\ UNCHANGED <<config, runstate, pc, libraries, matcher>>

\* ... shut the library down, release the mutex.
EndShutdownLibraries(s) ==
    /\ ~exited
    /\ inside[s] = "libraries"
    /\ libraries
    /\ libraries' = FALSE
    /\ Release(s)
    /\ inside' = [inside EXCEPT ![s] = "none"]
    /\ UNCHANGED <<config, runstate, pc, matcher>>

\* P4API::P4API calls Initialize, which takes the mutex to open the
\* connection ...
BeginInitialize(s) ==
    /\ ~exited
    /\ pc[s] = "new"
    /\ libraries
    /\ inside[s] = "none"
    /\ Acquire(s)
    /\ inside' = [inside EXCEPT ![s] = "connect"]
    /\ UNCHANGED <<config, runstate, pc, libraries, matcher>>

\* ... and releases it when the connection is open or has failed; the
\* Session exists from then on.
EndInitialize(s) ==
    /\ ~exited
    /\ pc[s] = "new"
    /\ inside[s] = "connect"
    /\ Release(s)
    /\ inside' = [inside EXCEPT ![s] = "none"]
    /\ pc' = [pc EXCEPT ![s] = "idle"]
    /\ UNCHANGED <<config, runstate, libraries, matcher>>

\* Reinitialize, called by RunEx on s in the retry loop or in the refresh
\* loop: Initialize takes the mutex ...
BeginReinitialize(s) ==
    /\ ~exited
    /\ inside[s] = "none"
    /\ \/ pc[s] = "reinit"
       \/ pc[s] = "refresh" /\ refreshRetries[s] > 0
    /\ Acquire(s)
    /\ inside' = [inside EXCEPT ![s] = "connect"]
    /\ UNCHANGED <<config, runstate, pc, libraries, matcher>>

\* ... the connection is opened or not, which is the result RunEx sees ...
ReinitializeLocked(s) ==
    /\ inside[s] = "connect"
    /\ \/ ReinitializeRetry(s)
       \/ RefreshAttempt(s)

\* ... and the mutex is released before Reinitialize returns to RunEx.
EndReinitialize(s) ==
    /\ ~exited
    /\ inside[s] = "connect"
    /\ pc[s] \in {"redispatch", "refreshsleep", "returned"}
    /\ Release(s)
    /\ inside' = [inside EXCEPT ![s] = "none"]
    /\ UNCHANGED <<config, runstate, pc, libraries, matcher>>

\* The steps of RunEx that are no part of Reinitialize: the thread takes
\* them when it is not inside a lifecycle step.
LifeStep(s) ==
    /\ inside[s] = "none"
    /\ \/ Sleep(s)
       \/ Redispatch(s)
       \/ PostLoop(s)
       \/ Deinitialize(s)
       \/ Exit(s)
       \/ RefreshSleep(s)
       \/ RefreshEnd(s)

\* A command on an existing Session, while the library is up.
LifeRun(s) ==
    /\ inside[s] = "none"
    /\ libraries
    /\ m_Usage[s] < MTUsage
    /\ Run(s)

\* Before the library is initialized and any Session is constructed.
InitLife ==
    /\ CommandRetries \in {0, 1}
    /\ CommandRefreshThreshold \in 0..MaxThreshold
    /\ m_Usage = [s \in Sessions |-> 0]
    /\ dropped = [s \in Sessions |-> FALSE]
    /\ clientUser = [s \in Sessions |-> NoReceiver]
    /\ commandRetries = [s \in Sessions |-> 0]
    /\ retries = [s \in Sessions |-> 0]
    /\ refreshRetries = [s \in Sessions |-> 0]
    /\ pc = [s \in Sessions |-> "new"]
    /\ log = [s \in Sessions |-> << >>]
    /\ usage0 = [s \in Sessions |-> 0]
    /\ crossings = [s \in Sessions |-> 0]
    /\ cycles = [s \in Sessions |-> 0]
    /\ exited = FALSE
    /\ InitializationMutex = "free"
    /\ libraries = FALSE
    /\ inside = [s \in Sessions |-> "none"]
    /\ m_ClientMapping = [s \in Sessions |-> << >>]
    /\ asked = NoQuestion

NextLife ==
    \E s \in Sessions :
        \/ BeginInitializeLibraries(s)
        \/ EndInitializeLibraries(s)
        \/ BeginShutdownLibraries(s)
        \/ EndShutdownLibraries(s)
        \/ BeginInitialize(s)
        \/ EndInitialize(s)
        \/ LifeRun(s)
        \/ BeginReinitialize(s)
        \/ ReinitializeLocked(s)
        \/ EndReinitialize(s)
        \/ LifeStep(s)

SpecLife == InitLife /\ [][NextLife]_vars

\* ---- C11 ----
\* C11: at most one thread at a time is inside library initialization,
\* library shutdown or connection establishment; a thread holds
\* InitializationMutex exactly while it is inside one of them, and not when
\* it has just dispatched a command.
C11_InitializationSerialized ==
    /\ \A s, t \in Sessions :
          (inside[s] # "none" /\ inside[t] # "none") => s = t
    /\ \A s \in Sessions : InitializationMutex = s <=> inside[s] # "none"
    /\ \A s \in Sessions : pc[s] = "while" => InitializationMutex # s

C11_Witness ==
    \E s, t \in Sessions :
        /\ s # t
        /\ InitializationMutex = s
        /\ inside[s] = "connect"
        /\ pc[s] = "reinit"
        /\ pc[t] = "while"
        /\ Count(log[t], "reinit") >= 1

\* ---- C12 ----
\* The rules //depot/main/... (include), //depot/main/secret/... (exclude).
MainWithoutSecret ==
    << [include |-> TRUE, left |-> <<"main">>, right |-> <<"ws", "main">>],
       [include |-> FALSE, left |-> <<"main", "secret">>,
        right |-> <<"ws", "main", "secret">>] >>

\* C12: a depot path is under the client spec exactly when some rule matches
\* it and the last rule that matches it is an include rule; with the rules
\* //depot/main/... (include), //depot/main/secret/... (exclude) the paths
\* below //depot/main/secret/ are out, the other paths below //depot/main/
\* are in, and the paths no rule matches are out.
C12_LastMatchWins ==
    LET rules == asked.rules
        path == asked.path
        M == {i \in 1..Len(rules) : Matches(rules[i], path)}
    IN
    /\ asked.under <=>
          \E i \in M : rules[i].include /\ \A j \in M : j <= i
    /\ rules = MainWithoutSecret =>
          asked.under =
              (/\ Len(path) >= 2
               /\ path[1] = "main"
               /\ ~(Len(path) >= 3 /\ path[2] = "secret"))

C12_Witness ==
    /\ asked.rules = MainWithoutSecret
    /\ asked.path = <<"main", "secret", "f">>
    /\ ~asked.under

TypeOK ==
    /\ pc \in [Sessions -> {"new", "idle", "while", "reinit", "redispatch", "deinit", "exit",
                            "refresh", "refreshsleep", "returned", "exited"}]
    /\ exited \in BOOLEAN
====
